---- MODULE Spec2Model ----
(***************************************************************************)
(* DoctorJobs (src/src/index.ts): a transactional outbox on Prisma.        *)
(*   queue(fn)        runs fn and createJob inside one $transaction.       *)
(*   run(handleJobs)  fetches the oldest job, parses it, starts the        *)
(*                    handler and resolves the job (delete / dead letter). *)
(* The store (job table, dead-letter table, business data) is the only     *)
(* shared state.  An await of the code is a step boundary: between two     *)
(* awaits of one call, steps of other calls may happen.  Consecutive       *)
(* segments of queue() that touch only the open transaction (the call,     *)
(* fn(tx) and the staging of the job row) are one step.                    *)
(***************************************************************************)
EXTENDS Integers, Sequences, FiniteSets, TLC

\* Number of queue() calls and of run() calls a behaviour makes.
MaxEnqueue == 2
MaxRuns == 2

Calls == 1..MaxEnqueue
Cycles == 1..MaxRuns

\* The Jobs type parameter.  queue() is given the README's sendClientLoginLink
\* job or a job whose tag the parser does not know; reticulateSplines, which the
\* README's handler always rejects, is handled like every job that is not
\* sendClientLoginLink.
JobDescs == {"sendClientLoginLink", "unknownVariant"}
NoDesc == "undefined"

\* JSON.stringify(job): the text stored in Job.data.
JSONstringify(job) ==
    CASE job = "sendClientLoginLink" -> "{\"type\":\"sendClientLoginLink\"}"
      [] job = "reticulateSplines"   -> "{\"type\":\"reticulateSplines\"}"
      [] job = "unknownVariant"      -> "{\"type\":\"unknownVariant\"}"
      [] OTHER                       -> "undefined"

\* JSON.parse(data), as the README's parseJob applies it.
JSONparse(data) ==
    CASE data = "{\"type\":\"sendClientLoginLink\"}" -> "sendClientLoginLink"
      [] data = "{\"type\":\"reticulateSplines\"}"   -> "reticulateSplines"
      [] data = "{\"type\":\"unknownVariant\"}"      -> "unknownVariant"
      [] OTHER                                       -> NoDesc

\* parseJob is supplied by the caller with type (input) => Either<Error, Jobs>.
\* A payload of a known variant parses to E.right; for any other payload the
\* supplied parser may return E.left, may throw, or (the README's parser,
\* E.right(JSON.parse(data))) may return E.right of the decoded value.
parseJob(data) ==
    IF JSONparse(data) \in {"sendClientLoginLink", "reticulateSplines"}
    THEN {"right"}
    ELSE {"left", "throw", "right"}

\* handleJobs is supplied by the caller; the README's handleParsedJobs awaits
\* a lookup and sends a mail for sendClientLoginLink (either may fail) and
\* throws for every other job.
handleJobs(parsed) ==
    IF parsed = "sendClientLoginLink" THEN {"resolves", "rejects"}
    ELSE {"rejects"}

NoRow == [id |-> 0, createdAt |-> 0, data |-> "none"]

VARIABLES
    logger,       \* whether the constructor was given a logger (this.log)
    jobs,         \* committed rows of the Job table
    deadLetters,  \* rows of the DeadLetters table
    business,     \* committed business writes, one per queue() call
    nextId,       \* the next Job id the store assigns (@default(cuid()))
    now,          \* the store's clock, read by createdAt @default(now())
    enq,          \* the queue() calls
    cyc,          \* the run() calls
    sequential,   \* history: every run() so far began after the earlier ones returned
    lateCommit    \* history: some queue() committed after the first run() began

vars == <<logger, jobs, deadLetters, business, nextId, now, enq, cyc,
          sequential, lateCommit>>

store == <<jobs, deadLetters, business, nextId, now>>
history == <<sequential, lateCommit>>

Ids(rows) == {j.id : j \in rows}

\* getJob of the README: findFirst({orderBy: {createdAt: "asc"}}).
findLast(rows) == CHOOSE j \in rows : \A k \in rows : j.createdAt >= k.createdAt
findFirst(rows) == CHOOSE j \in rows : \A k \in rows : j.createdAt <= k.createdAt

\* client.job.delete({where: {id}}) applied to the table.
deleteWhereNoop(rows, id) == rows
deleteWhere(rows, id) == {j \in rows : j.id # id}

\* The data of deadLetters.create: the fetched job's id and data.
deadLetterOfParsed(job) == [id |-> job.id, data |-> JSONparse(job.data)]
deadLetterOf(job) == [id |-> job.id, data |-> job.data]

\* TE.fold: after the delete, the failure branch goes on to create the dead
\* letter, the success branch is finished.
foldSwapped(err) == IF err = "none" THEN "create" ELSE "done"
fold(err) == IF err = "none" THEN "done" ELSE "create"

Init ==
    /\ logger \in BOOLEAN
    /\ jobs = {}
    /\ deadLetters = {}
    /\ business = {}
    /\ nextId = 1
    /\ now = 1
    /\ enq = [c \in Calls |-> [pc |-> "idle", desc |-> NoDesc, row |-> NoRow]]
    /\ cyc = [r \in Cycles |-> [pc |-> "idle", job |-> NoRow, err |-> "none",
                                ret |-> "none", task |-> "none"]]
    /\ sequential = TRUE
    /\ lateCommit = FALSE

----------------------------------------------------------------------------
(* queue(fn)                                                               *)

\* $transaction rejects (the callback threw, or the commit failed): the
\* transaction is rolled back, so neither the business write nor the job row
\* reaches the tables, and the promise queue() returned rejects ("failed").
TxRollbackLeak(c) ==
    /\ enq' = [enq EXCEPT ![c].pc = "failed"]
    /\ jobs' = jobs \cup (IF enq[c].row = NoRow THEN {} ELSE {enq[c].row})
    /\ business' = business \cup {c}
    /\ UNCHANGED <<logger, deadLetters, nextId, now, cyc, history>>
TxRollback(c) ==
    /\ enq' = [enq EXCEPT ![c].pc = "failed"]
    /\ UNCHANGED <<logger, store, cyc, history>>

\* queue(fn) is called and await fn(tx) throws.  What fn wrote went through tx
\* and is seen by no one else.
QueueFnThrows(c) ==
    /\ enq[c].pc = "idle"
    /\ IF c = 1 THEN TRUE ELSE enq[c - 1].pc # "idle"
    /\ TxRollback(c)

\* queue(fn) is called, fn(tx) resolves with {data, job}, and
\* await this.createJob(tx, JSON.stringify(job)) stages the row in tx; the store
\* assigns its id and createdAt.  The commit is still to come.
QueueCreateJob(c, job) ==
    /\ enq[c].pc = "idle"
    /\ IF c = 1 THEN TRUE ELSE enq[c - 1].pc # "idle"
    /\ enq' = [enq EXCEPT ![c] = [pc |-> "commit", desc |-> job,
                                  row |-> [id |-> nextId, createdAt |-> now,
                                           data |-> JSONstringify(job)]]]
    /\ nextId' = nextId + 1
    /\ now' = now + 1
    /\ UNCHANGED <<logger, jobs, deadLetters, business, cyc, history>>

\* queue(fn) is called, fn(tx) resolves, and await this.createJob(...) throws.
QueueCreateJobFails(c) ==
    /\ enq[c].pc = "idle"
    /\ IF c = 1 THEN TRUE ELSE enq[c - 1].pc # "idle"
    /\ TxRollback(c)

\* The callback returned data: $transaction commits the staged writes together
\* and resolves with data.
TxCommitNoJob(c) ==
    /\ enq' = [enq EXCEPT ![c].pc = "returned"]
    /\ business' = business \cup {c}
    /\ lateCommit' = (lateCommit \/ cyc[1].pc # "idle")
    /\ UNCHANGED <<logger, jobs, deadLetters, nextId, now, cyc, sequential>>
TxCommit(c) ==
    /\ enq' = [enq EXCEPT ![c].pc = "returned"]
    /\ jobs' = jobs \cup {enq[c].row}
    /\ business' = business \cup {c}
    /\ lateCommit' = (lateCommit \/ cyc[1].pc # "idle")
    /\ UNCHANGED <<logger, deadLetters, nextId, now, cyc, sequential>>

QueueCommit(c) ==
    /\ enq[c].pc = "commit"
    /\ TxCommit(c)

QueueCommitFails(c) ==
    /\ enq[c].pc = "commit"
    /\ TxRollback(c)

----------------------------------------------------------------------------
(* run(handleJobs)                                                         *)

\* run is called: this.log.info("Attempting to find job"), which throws a
\* TypeError when no logger was given; otherwise getJob() is awaited.
RunBegin(r) ==
    /\ cyc[r].pc = "idle"
    /\ IF r = 1 THEN TRUE ELSE cyc[r - 1].pc # "idle"
    /\ cyc' = [cyc EXCEPT ![r].pc = IF logger THEN "getJob" ELSE "done",
                          ![r].ret = IF logger THEN "pending" ELSE "rejected"]
    /\ sequential' = (sequential /\ \A q \in Cycles : cyc[q].ret # "pending")
    /\ UNCHANGED <<logger, store, enq, lateCommit>>

\* await this.getJob() rejected: run rejects.
RunGetJobFailsSwallowed(r) ==
    /\ cyc[r].pc = "getJob"
    /\ cyc' = [cyc EXCEPT ![r].pc = "done", ![r].ret = "resolved"]
    /\ UNCHANGED <<logger, store, enq, history>>
RunGetJobFails(r) ==
    /\ cyc[r].pc = "getJob"
    /\ cyc' = [cyc EXCEPT ![r].pc = "done", ![r].ret = "rejected"]
    /\ UNCHANGED <<logger, store, enq, history>>

\* getJob() resolved with O.none: "No job found", run resolves.
RunNoJob(r) ==
    /\ cyc[r].pc = "getJob"
    /\ jobs = {}
    /\ cyc' = [cyc EXCEPT ![r].pc = "done", ![r].ret = "resolved"]
    /\ UNCHANGED <<logger, store, enq, history>>

\* getJob() resolved with O.some(job).  parseJob(job) is called at once; if it
\* throws, run rejects.  Otherwise the TaskEither is started and its promise is
\* dropped (pipe(...) is neither awaited nor returned), so run resolves now:
\* on E.right the handler has been called and is in progress, on E.left the
\* failure branch has issued its delete.
RunGetJob(r) ==
    /\ cyc[r].pc = "getJob"
    /\ jobs # {}
    /\ LET job == findFirst(jobs) IN
       \E parsed \in parseJob(job.data) :
          cyc' = [cyc EXCEPT ![r] =
                CASE parsed = "throw" ->
                       [pc |-> "done", job |-> job, err |-> "none",
                        ret |-> "rejected", task |-> "none"]
                  [] parsed = "left" ->
                       [pc |-> "delete", job |-> job, err |-> "parse",
                        ret |-> "resolved", task |-> "running"]
                  [] OTHER ->
                       [pc |-> "handleJobs", job |-> job, err |-> "none",
                        ret |-> "resolved", task |-> "running"]]
    /\ UNCHANGED <<logger, store, enq, history>>

\* handleJobs(parsed) resolved: the success branch issues its delete.
HandleJobsResolves(r) ==
    /\ cyc[r].pc = "handleJobs"
    /\ "resolves" \in handleJobs(JSONparse(cyc[r].job.data))
    /\ cyc' = [cyc EXCEPT ![r].pc = "delete"]
    /\ UNCHANGED <<logger, store, enq, history>>

\* handleJobs(parsed) rejected: TE.tryCatch turns it into a left, the failure
\* branch issues its delete.
HandleJobsRejects(r) ==
    /\ cyc[r].pc = "handleJobs"
    /\ "rejects" \in handleJobs(JSONparse(cyc[r].job.data))
    /\ cyc' = [cyc EXCEPT ![r].pc = "delete", ![r].err = "handle"]
    /\ UNCHANGED <<logger, store, enq, history>>

\* await this.client.job.delete({where: {id: job.id}}) completes: the row is
\* removed, or the delete throws because no such row exists any more.
JobDelete(r) ==
    /\ cyc[r].pc = "delete"
    /\ IF cyc[r].job.id \in Ids(jobs)
       THEN /\ jobs' = deleteWhere(jobs, cyc[r].job.id)
            /\ cyc' = [cyc EXCEPT ![r].pc = fold(cyc[r].err),
                                  ![r].task = IF fold(cyc[r].err) = "done"
                                              THEN "fulfilled" ELSE "running"]
       ELSE /\ jobs' = jobs
            /\ cyc' = [cyc EXCEPT ![r].pc = "done", ![r].task = "notFound"]
    /\ UNCHANGED <<logger, deadLetters, business, nextId, now, enq, history>>

\* The store could not carry out the delete: the dropped promise rejects.
JobDeleteFails(r) ==
    /\ cyc[r].pc = "delete"
    /\ cyc' = [cyc EXCEPT ![r].pc = "done", ![r].task = "storeError"]
    /\ UNCHANGED <<logger, store, enq, history>>

\* await this.client.deadLetters.create({data: {id, data}}) completes; the id
\* is the table's key, so a second row of the same id is refused.
DeadLettersCreate(r) ==
    /\ cyc[r].pc = "create"
    /\ IF cyc[r].job.id \in Ids(deadLetters)
       THEN /\ deadLetters' = deadLetters
            /\ cyc' = [cyc EXCEPT ![r].pc = "done", ![r].task = "duplicate"]
       ELSE /\ deadLetters' = deadLetters \cup {deadLetterOf(cyc[r].job)}
            /\ cyc' = [cyc EXCEPT ![r].pc = "done", ![r].task = "fulfilled"]
    /\ UNCHANGED <<logger, jobs, business, nextId, now, enq, history>>

\* The store could not carry out the insert: the dropped promise rejects.
DeadLettersCreateFails(r) ==
    /\ cyc[r].pc = "create"
    /\ cyc' = [cyc EXCEPT ![r].pc = "done", ![r].task = "storeError"]
    /\ UNCHANGED <<logger, store, enq, history>>

----------------------------------------------------------------------------
Next ==
    \/ \E c \in Calls : QueueFnThrows(c)
    \/ \E c \in Calls, job \in JobDescs : QueueCreateJob(c, job)
    \/ \E c \in Calls : QueueCreateJobFails(c)
    \/ \E c \in Calls : QueueCommit(c)
    \/ \E c \in Calls : QueueCommitFails(c)
    \/ \E r \in Cycles : RunBegin(r)
    \/ \E r \in Cycles : RunGetJobFails(r)
    \/ \E r \in Cycles : RunNoJob(r)
    \/ \E r \in Cycles : RunGetJob(r)
    \/ \E r \in Cycles : HandleJobsResolves(r)
    \/ \E r \in Cycles : HandleJobsRejects(r)
    \/ \E r \in Cycles : JobDelete(r)
    \/ \E r \in Cycles : JobDeleteFails(r)
    \/ \E r \in Cycles : DeadLettersCreate(r)
    \/ \E r \in Cycles : DeadLettersCreateFails(r)

Spec == Init /\ [][Next]_vars

----------------------------------------------------------------------------
(* The runner under the README's timer, with a store whose operations      *)
(* succeed and handlers that terminate.                                    *)

\* setInterval(() => doctorJob.run(handleParsedJobs), 1000) fires again: a
\* finished call's place is taken by a new call of run, which logs and awaits
\* getJob().
RunAgain(r) ==
    /\ cyc[r].pc = "done"
    /\ logger = TRUE
    /\ cyc' = [cyc EXCEPT ![r] = [pc |-> "getJob", job |-> NoRow, err |-> "none",
                                  ret |-> "pending", task |-> "none"]]
    /\ sequential' = (sequential /\ \A q \in Cycles : cyc[q].ret # "pending")
    /\ UNCHANGED <<logger, store, enq, lateCommit>>

\* The steps of run call r when no store operation fails.
RunStep(r) ==
    \/ RunBegin(r)
    \/ RunNoJob(r)
    \/ RunGetJob(r)
    \/ HandleJobsResolves(r)
    \/ HandleJobsRejects(r)
    \/ JobDelete(r)
    \/ DeadLettersCreate(r)
    \/ RunAgain(r)

LiveNext ==
    \/ \E c \in Calls : QueueFnThrows(c)
    \/ \E c \in Calls, job \in JobDescs : QueueCreateJob(c, job)
    \/ \E c \in Calls : QueueCommit(c)
    \/ \E r \in Cycles : RunBegin(r)
    \/ \E r \in Cycles : RunNoJob(r)
    \/ \E r \in Cycles : RunGetJob(r)
    \/ \E r \in Cycles : HandleJobsResolves(r)
    \/ \E r \in Cycles : HandleJobsRejects(r)
    \/ \E r \in Cycles : JobDelete(r)
    \/ \E r \in Cycles : DeadLettersCreate(r)
    \/ \E r \in Cycles : RunAgain(r)

\* The timer keeps firing and every awaited promise of a call settles: each
\* call keeps taking its steps.
LiveInit == Init /\ logger = TRUE

LiveSpec ==
    /\ LiveInit
    /\ [][LiveNext]_vars
    /\ \A r \in Cycles : WF_vars(RunStep(r))

TypeOK ==
    /\ logger \in BOOLEAN
    /\ \A j \in jobs : j.id \in 1..MaxEnqueue /\ j.data \in {JSONstringify(d) : d \in JobDescs}
    /\ \A d \in deadLetters : d.id \in 1..MaxEnqueue
    /\ business \subseteq Calls
    /\ nextId \in 1..(MaxEnqueue + 1)
    /\ \A c \in Calls : enq[c].pc \in {"idle", "commit", "returned", "failed"}
    /\ \A r \in Cycles :
          /\ cyc[r].pc \in {"idle", "getJob", "handleJobs", "delete", "create", "done"}
          /\ cyc[r].err \in {"none", "parse", "handle"}
          /\ cyc[r].ret \in {"none", "pending", "resolved", "rejected"}
          /\ cyc[r].task \in {"none", "running", "fulfilled", "notFound",
                              "storeError", "duplicate"}
    /\ sequential \in BOOLEAN
    /\ lateCommit \in BOOLEAN

----------------------------------------------------------------------------
(* Properties                                                              *)

InFlightOrFailed(c) == enq[c].pc \in {"commit", "failed"}

\* The writes of call c are visible nowhere: not in the tables, not in a cycle.
Unobservable(c) ==
    /\ c \notin business
    /\ enq[c].row # NoRow =>
          /\ enq[c].row.id \notin Ids(jobs) \cup Ids(deadLetters)
          /\ \A r \in Cycles : cyc[r].job.id # enq[c].row.id

\* C1: a queue() call whose callback threw, or whose job insert or commit
\* failed, ends failed with its business write and its job row in no table and
\* fetched by no cycle; the failing step itself leaves the job table and the
\* business data as they were; and as long as the call has not returned, no
\* cycle has fetched its job.
EnqueueFailureLeavesNothing ==
    /\ [](\A c \in Calls : InFlightOrFailed(c) => Unobservable(c))
    /\ [][\A c \in Calls :
            (enq[c].pc # "failed" /\ enq'[c].pc = "failed")
               => (jobs' = jobs /\ business' = business)]_vars

\* A call failed at commit, after its row was staged, and a cycle has meanwhile
\* fetched a job that was inserted after that row.
EnqueueFailureWitness ==
    \E c \in Calls, r \in Cycles :
       /\ enq[c].pc = "failed"
       /\ enq[c].row # NoRow
       /\ cyc[r].job.id > enq[c].row.id

Returns(c) == enq[c].pc # "returned" /\ enq'[c].pc = "returned"

\* C2: the step in which a queue() call returns its result adds the call's
\* business write and exactly one new Job row, whose data is the serialized job
\* description, to the store; and the business data and the job table gain
\* something only in such a step.
EnqueueReturnsIffCommitted ==
    [][/\ \A c \in Calls : Returns(c) =>
             /\ c \notin business
             /\ business' = business \cup {c}
             /\ \E row \in jobs' :
                   /\ row.id \notin Ids(jobs)
                   /\ jobs' = jobs \cup {row}
                   /\ row.data = JSONstringify(enq[c].desc)
       /\ (business' # business \/ ~(jobs' \subseteq jobs)) =>
             \E c \in Calls : Returns(c)]_vars

\* A call has returned and its business write and its job row are in the store.
EnqueueReturnsWitness ==
    \E c \in Calls :
       /\ enq[c].pc = "returned"
       /\ c \in business
       /\ enq[c].row \in jobs
       /\ enq[c].row.data = "{\"type\":\"unknownVariant\"}"

Failed(r) == cyc[r].err \in {"parse", "handle"}

\* C3 as stated: every cycle whose parser returned an error value or whose
\* handler raised ends with the job's dead letter stored and the job not
\* pending, and run does not reject.
QuarantineAlways ==
    \A r \in Cycles : (Failed(r) /\ cyc[r].pc = "done") =>
       /\ [id |-> cyc[r].job.id, data |-> cyc[r].job.data] \in deadLetters
       /\ cyc[r].job.id \notin Ids(jobs)
       /\ cyc[r].ret = "resolved"

\* C3 (amended): for a cycle whose parser returned an error value or whose
\* handler raised, run does not reject; and if the cycle's job delete and
\* dead-letter insert both completed, the job's dead letter is stored and the
\* job is not pending.
QuarantineWhenWritesComplete ==
    \A r \in Cycles : Failed(r) =>
       /\ cyc[r].ret = "resolved"
       /\ (cyc[r].pc = "done" /\ cyc[r].task = "fulfilled") =>
             /\ [id |-> cyc[r].job.id, data |-> cyc[r].job.data] \in deadLetters
             /\ cyc[r].job.id \notin Ids(jobs)

\* Both kinds of failure were quarantined: one cycle's parser returned an error
\* value, another's handler raised, and both completed their writes.
QuarantineWitness ==
    \E r, q \in Cycles :
       /\ cyc[r].err = "parse" /\ cyc[r].pc = "done" /\ cyc[r].task = "fulfilled"
       /\ cyc[q].err = "handle" /\ cyc[q].pc = "done" /\ cyc[q].task = "fulfilled"

\* C4: a job whose parsing or handling failed is, in every state, pending or
\* dead-lettered (the dead letter is created before the job row is deleted).
FailedJobNeverLost ==
    \A r \in Cycles : Failed(r) =>
       cyc[r].job.id \in Ids(jobs) \cup Ids(deadLetters)

\* C5: when the store could not complete a resolution write of a cycle, the
\* job the cycle fetched is still pending.
ResolutionFailureKeepsJobPending ==
    \A r \in Cycles : cyc[r].task = "storeError" =>
       cyc[r].job.id \in Ids(jobs)

\* C6: no job id is at once in the job table and in the dead-letter table, and
\* the job of a cycle that completed its resolution is not in the job table.
NeverPendingAndDeadLettered ==
    /\ Ids(jobs) \cap Ids(deadLetters) = {}
    /\ \A r \in Cycles : (cyc[r].pc = "done" /\ cyc[r].task = "fulfilled") =>
          cyc[r].job.id \notin Ids(jobs)

\* A cycle is between its delete and its dead-letter insert while a queue()
\* call is about to commit.
MidQuarantineWitness ==
    \E r \in Cycles, c \in Calls :
       /\ cyc[r].pc = "create"
       /\ enq[c].pc = "commit"

\* The cycle has called handleJobs with its parsed job.
Handed(r) ==
    \/ cyc[r].pc = "handleJobs"
    \/ cyc[r].err = "handle"
    \/ cyc[r].err = "none" /\ cyc[r].task # "none" /\ cyc[r].pc \in {"delete", "done"}

\* C7: when every job was committed before the first run() and each run() began
\* after the earlier ones had returned, the jobs are handed to the handler in
\* strictly increasing creation time (each job once, oldest first).
HandledOldestFirst ==
    (sequential /\ ~lateCommit) =>
       \A r, q \in Cycles :
          (r < q /\ Handed(r) /\ Handed(q)) =>
             cyc[r].job.createdAt < cyc[q].job.createdAt

\* C8: every dead letter has the id and the data of a job row that a queue()
\* call committed, and a cycle that completed its quarantine stored exactly
\* the id and data of the job it fetched.
DeadLetterMatchesJob ==
    /\ \A d \in deadLetters : \E c \in Calls :
          /\ enq[c].pc = "returned"
          /\ d = [id |-> enq[c].row.id, data |-> enq[c].row.data]
    /\ \A r \in Cycles : (Failed(r) /\ cyc[r].task = "fulfilled") =>
          [id |-> cyc[r].job.id, data |-> cyc[r].job.data] \in deadLetters

\* Two jobs of different payloads were dead-lettered.
DeadLetterWitness ==
    \E d, e \in deadLetters : d.id # e.id /\ d.data # e.data

ResolutionFailureReported ==
    \A r \in Cycles :
       cyc[r].task \in {"storeError", "notFound", "duplicate"} =>
          cyc[r].ret = "rejected"

\* C11: with the timer firing for ever, terminating handlers and a store whose
\* operations succeed, every committed job eventually leaves the job table,
\* whether its parsing or handling fails or not.
CommittedJobsLeave ==
    \A i \in 1..MaxEnqueue : (i \in Ids(jobs)) ~> (i \notin Ids(jobs))

\* C12: the logger plays no part: whether or not the constructor was given a
\* logger, a call of run goes on to await getJob().
LoggerPlaysNoPart ==
    [][\A r \in Cycles :
          (cyc[r].pc = "idle" /\ cyc'[r] # cyc[r]) =>
             cyc'[r] = [cyc[r] EXCEPT !.pc = "getJob", !.ret = "pending"]]_vars

\* C13: a step of a call of run that finds the job table empty (the call itself,
\* or getJob() resolving with no job) changes neither table, does not start the
\* handler, and does not make the call reject.
EmptyQueueIdempotent ==
    [][\A r \in Cycles :
          (jobs = {} /\ (RunBegin(r) \/ RunNoJob(r))) =>
             /\ jobs' = jobs
             /\ deadLetters' = deadLetters
             /\ cyc'[r].pc # "handleJobs"
             /\ cyc'[r].ret # "rejected"]_vars

\* C14: when getJob() rejects, the call of run rejects, it has started neither
\* the handler nor a resolution write, and the step changes neither table; and
\* no rejected call of run has ever started the handler or a resolution write.
FetchFailurePropagates ==
    /\ [](\A r \in Cycles : cyc[r].ret = "rejected" =>
             (cyc[r].task = "none" /\ cyc[r].err = "none" /\ cyc[r].pc = "done"))
    /\ [][\A r \in Cycles : RunGetJobFails(r) =>
             /\ cyc'[r].ret = "rejected"
             /\ jobs' = jobs
             /\ deadLetters' = deadLetters]_vars

\* getJob() rejected for a call of run while a job was pending: the call
\* rejected without having fetched anything.
FetchFailureWitness ==
    \E r \in Cycles :
       /\ logger
       /\ cyc[r].ret = "rejected"
       /\ cyc[r].job = NoRow
       /\ jobs # {}

\* C15: no dead letter is ever removed or changed, a dead letter is only added
\* under an id the table does not hold yet, and no cycle ever attempts a second
\* dead letter for an id.
DeadLetterCreatedOnce ==
    /\ [](\A r \in Cycles : cyc[r].task # "duplicate")
    /\ [](Cardinality(Ids(deadLetters)) = Cardinality(deadLetters))
    /\ [][/\ deadLetters \subseteq deadLetters'
          /\ \A d \in deadLetters' \ deadLetters : d.id \notin Ids(deadLetters)]_vars

\* Two cycles fetched the same job and both failed it; one created its dead
\* letter, the other's delete found the row gone.
DeadLetterOnceWitness ==
    \E r, q \in Cycles :
       /\ r # q
       /\ cyc[r].job = cyc[q].job
       /\ Failed(r) /\ cyc[r].task = "fulfilled"
       /\ Failed(q) /\ cyc[q].task = "notFound"
       /\ cyc[r].job.id \in Ids(deadLetters)

InProgress(r) == cyc[r].pc \in {"getJob", "handleJobs", "delete", "create"}

\* C16: a call of run has returned only when its cycle is over (the handler has
\* finished and the job is deleted or dead-lettered), so when each call began
\* after the earlier ones had returned, at most one cycle is in progress.
RunReturnsAfterResolution ==
    /\ \A r \in Cycles : cyc[r].ret = "resolved" => cyc[r].pc = "done"
    /\ sequential => \A r, q \in Cycles : (InProgress(r) /\ InProgress(q)) => r = q

\* C17: no two cycles have the same job in hand at once: a job that one cycle
\* fetched and has not yet resolved is not fetched by another cycle.
NoJobInTwoCycles ==
    \A r, q \in Cycles :
       (r # q /\ InProgress(r) /\ InProgress(q) /\ cyc[r].job # NoRow)
          => cyc[r].job.id # cyc[q].job.id

\* Parsing failed for the job the cycle fetched: the parser returned an error
\* value, or it threw (run rejected after the fetch).
ParseFailed(r) ==
    \/ cyc[r].err = "parse"
    \/ cyc[r].job # NoRow /\ cyc[r].ret = "rejected"

\* C18: however the parser signals the failure, run does not reject, the
\* handler is not called, and once the cycle is over with its writes completed
\* the job's dead letter is stored and the job is not pending.
ParseFailureQuarantined ==
    \A r \in Cycles : ParseFailed(r) =>
       /\ cyc[r].ret = "resolved"
       /\ ~Handed(r)
       /\ (cyc[r].pc = "done" /\ cyc[r].task \notin {"storeError", "notFound"}) =>
             /\ [id |-> cyc[r].job.id, data |-> cyc[r].job.data] \in deadLetters
             /\ cyc[r].job.id \notin Ids(jobs)

\* C19: a cycle calls the handler at most once (only on leaving getJob, which
\* it enters once); the job it fetches is the oldest pending one; and a step
\* of the cycle removes no job but the fetched one, adds no job, removes no
\* dead letter and adds none but the fetched job's.
CycleTouchesOnlyItsJob ==
    [][\A r \in Cycles : cyc'[r] # cyc[r] =>
          /\ cyc'[r].pc = "handleJobs" => cyc[r].pc = "getJob"
          /\ cyc'[r].pc = "getJob" => cyc[r].pc = "idle"
          /\ cyc'[r].pc # "idle"
          /\ (cyc[r].pc = "getJob" /\ cyc'[r].job # NoRow) =>
                /\ cyc'[r].job \in jobs
                /\ \A k \in jobs : cyc'[r].job.createdAt <= k.createdAt
          /\ cyc[r].pc # "getJob" => cyc'[r].job = cyc[r].job
          /\ jobs' \subseteq jobs
          /\ jobs \ jobs' \subseteq {cyc[r].job}
          /\ deadLetters \subseteq deadLetters'
          /\ deadLetters' \ deadLetters \subseteq
                {[id |-> cyc[r].job.id, data |-> cyc[r].job.data]}]_vars

\* A cycle fetched the older of two pending jobs and resolved it, and the
\* newer one is still pending.
CycleFrameWitness ==
    \E r \in Cycles :
       /\ cyc[r].pc = "done" /\ cyc[r].task = "fulfilled"
       /\ \E k \in jobs : k.createdAt > cyc[r].job.createdAt

\* The handler was called for the cycle's job and returned without error.
HandlerSucceeded(r) ==
    /\ cyc[r].err = "none"
    /\ cyc[r].task # "none"
    /\ cyc[r].pc \in {"delete", "done"}

\* C20: a job for which a handler invocation completed successfully is never
\* dead-lettered.
OutcomeSingleValued ==
    \A r \in Cycles : HandlerSucceeded(r) => cyc[r].job.id \notin Ids(deadLetters)

====
